---- MODULE Spec2Model ----
(***************************************************************************)
(* Command relay of codex-remote: Feishu session tokens, the inbound       *)
(* webhook pipeline (signature, whitelist, command parsing, session        *)
(* lookup, injection, acknowledgment) and the token generators.            *)
(*                                                                         *)
(* Two FeishuWebhookHandler classes exist in the sources: the one in       *)
(* src/channels/feishu/feishu.js (card actions, signature check commented  *)
(* out) and the one in src/channels/feishu/webhook.js.  cfg.variant says   *)
(* which one serves the requests of a behaviour.                           *)
(*                                                                         *)
(* Texts and tokens are tuples of one-character strings, so that the       *)
(* regular expressions and string conversions are computed, not assumed.   *)
(***************************************************************************)
EXTENDS Integers, Sequences, FiniteSets, TLC

VARIABLES
    cfg,          \* the handler's configuration (this.config) and the deployed handler
    now,          \* Date.now(), in milliseconds
    sessions,     \* data/sessions/feishu_<token>.json: token -> record or NoFile
    req,          \* per worker: the inbound request being handled and what it did
    injectCount,  \* per token: injectCommand calls made for the token's session
    received,     \* per token: commands whose lookup found the token's session
    reclaimed,    \* tokens whose expired file a lookup found, not created again since
    gen,          \* token generator run: random draws and the token produced
    parse,        \* _parseCommand run: the text, its parts and the result
    send,         \* the notification being sent: channel, token, how far it got
    mail,         \* email stores: session files by id and session-map.json by token
    creators,     \* per process: the _createSession call it is in and the map it read
    probe,        \* a lookup or scan on given session files: its inputs and result
    auth          \* FeishuChannel: accessToken, tokenExpiry and the last _getAccessToken call

vars == <<cfg, now, sessions, req, injectCount, received, reclaimed, gen, parse,
          send, mail, creators, probe, auth>>

-----------------------------------------------------------------------------
(* Characters *)

LowerLetters ==
    <<"a","b","c","d","e","f","g","h","i","j","k","l","m",
      "n","o","p","q","r","s","t","u","v","w","x","y","z">>
UpperLetters ==
    <<"A","B","C","D","E","F","G","H","I","J","K","L","M",
      "N","O","P","Q","R","S","T","U","V","W","X","Y","Z">>
DigitChars == <<"0","1","2","3","4","5","6","7","8","9">>

Range(s) == {s[i] : i \in DOMAIN s}

IsUpper(c) == c \in Range(UpperLetters)
IsLower(c) == c \in Range(LowerLetters)
IsDigit(c) == c \in Range(DigitChars)

\* String.prototype.toUpperCase on one character
toUpperCase(c) ==
    IF IsLower(c)
    THEN UpperLetters[CHOOSE i \in DOMAIN LowerLetters : LowerLetters[i] = c]
    ELSE c

\* String.prototype.toLowerCase on one character
toLowerCase(c) ==
    IF IsUpper(c)
    THEN LowerLetters[CHOOSE i \in DOMAIN UpperLetters : UpperLetters[i] = c]
    ELSE c

\* \s of a JavaScript regular expression (the characters the model uses)
IsSpace(c) == c \in {" ", "\n", "\t"}
\* . of a JavaScript regular expression without the s flag: no line terminator
IsDot(c) == c # "\n"
\* a faulty token class: [A-Z0-9] with the i flag lost
IsTokenChar_caseSensitive(c) == IsUpper(c) \/ IsDigit(c)
\* [A-Z0-9] under the i flag
IsTokenChar(c) == IsUpper(c) \/ IsLower(c) \/ IsDigit(c)
\* [A-Z0-9] without the i flag
IsUpperAlnum(c) == IsUpper(c) \/ IsDigit(c)

\* s.substring(a, b) with 0-based a (inclusive) and b (exclusive), clamped
substring(s, a, b) ==
    LET lo == IF a > Len(s) THEN Len(s) ELSE a
        hi == IF b > Len(s) THEN Len(s) ELSE b
    IN  IF hi <= lo THEN <<>> ELSE SubSeq(s, lo + 1, hi)

RECURSIVE TrimLeft(_)
TrimLeft(s) ==
    IF s # <<>> /\ IsSpace(Head(s)) THEN TrimLeft(Tail(s)) ELSE s

RECURSIVE TrimRight(_)
TrimRight(s) ==
    IF s # <<>> /\ IsSpace(s[Len(s)]) THEN TrimRight(SubSeq(s, 1, Len(s) - 1)) ELSE s

\* String.prototype.trim
trim(s) == TrimRight(TrimLeft(s))

-----------------------------------------------------------------------------
(* FeishuChannel._parseCommand *)

TokenLen == 8

\* JavaScript null / undefined result
NULL == [null |-> TRUE]

KwCmd == <<"/","c","m","d">>
KwToken == <<"t","o","k","e","n">>

\* the keyword matches at 1-based position i, case-insensitively
KeywordAt(text, kw, i) ==
    /\ i + Len(kw) - 1 <= Len(text)
    /\ \A k \in 1..Len(kw) : toLowerCase(text[i + k - 1]) = kw[k]

\* the end (exclusive) of the longest run of characters satisfying the class
RECURSIVE SpaceRunEnd(_, _)
SpaceRunEnd(text, i) ==
    IF i <= Len(text) /\ IsSpace(text[i]) THEN SpaceRunEnd(text, i + 1) ELSE i

RECURSIVE DotRunEnd(_, _)
DotRunEnd(text, i) ==
    IF i <= Len(text) /\ IsDot(text[i]) THEN DotRunEnd(text, i + 1) ELSE i

\* kw \s+ ([A-Z0-9]{8}) \s+ (.+) matched with the keyword at position i: NULL,
\* or the two groups. Each step of the match is an operator that is handed
\* the positions found so far.

\* (.+) from position c0 to the end of the line
Groups(text, t0, t1, c0) ==
    [token |-> SubSeq(text, t0, t1 - 1),
     command |-> SubSeq(text, c0, DotRunEnd(text, c0) - 1)]

\* \s+ is greedy: (.+) starts after the longest run of spaces that leaves it a
\* character, so at the last of the possible starts
MatchCommand(text, t0, t1, starts) ==
    IF starts = {} THEN NULL
    ELSE Groups(text, t0, t1, CHOOSE c \in starts : \A d \in starts : d <= c)

\* \s+ (.+) after the token, whose space run ends at w1
MatchSpaces(text, t0, t1, w1) ==
    IF w1 = t1 THEN NULL
    ELSE MatchCommand(text, t0, t1,
            {c \in (t1 + 1)..w1 : c <= Len(text) /\ IsDot(text[c])})

\* ([A-Z0-9]{8}) at t0, after the space run that started at s1
MatchToken(text, s1, t0) ==
    IF t0 = s1 \/ t0 + TokenLen - 1 > Len(text) THEN NULL
    ELSE IF \E k \in t0..(t0 + TokenLen - 1) : ~IsTokenChar(text[k]) THEN NULL
    ELSE MatchSpaces(text, t0, t0 + TokenLen, SpaceRunEnd(text, t0 + TokenLen))

MatchAt(text, kw, i) ==
    IF ~KeywordAt(text, kw, i) THEN NULL
    ELSE MatchToken(text, i + Len(kw), SpaceRunEnd(text, i + Len(kw)))

FirstMatch(text, kw, hits) ==
    IF hits = {} THEN NULL
    ELSE MatchAt(text, kw, CHOOSE i \in hits : \A j \in hits : i <= j)

\* String.prototype.match without the g flag: the leftmost match
RegexMatch(text, kw) ==
    FirstMatch(text, kw, {i \in 1..Len(text) : MatchAt(text, kw, i) # NULL})

ParseResult(cmdMatch, tokenMatch) ==
    IF cmdMatch # NULL
    THEN [token |-> cmdMatch.token, command |-> trim(cmdMatch.command)]
    ELSE IF tokenMatch # NULL
    THEN [token |-> tokenMatch.token, command |-> trim(tokenMatch.command)]
    ELSE NULL

\* a faulty _parseCommand: a text that starts with eight token characters and a
\* space is taken as token and command without any keyword
_parseCommand_bareToken(text) ==
    IF /\ Len(text) > TokenLen + 1
       /\ \A i \in 1..TokenLen : IsTokenChar(text[i])
       /\ IsSpace(text[TokenLen + 1])
    THEN [token |-> SubSeq(text, 1, TokenLen),
          command |-> trim(SubSeq(text, TokenLen + 2, Len(text)))]
    ELSE ParseResult(RegexMatch(text, KwCmd), RegexMatch(text, KwToken))

_parseCommand(text) ==
    ParseResult(RegexMatch(text, KwCmd), RegexMatch(text, KwToken))

-----------------------------------------------------------------------------
(* Session files of the Feishu channel *)

\* 24 * 60 * 60 * 1000 milliseconds
SessionTTL == 24 * 60 * 60 * 1000
Hour == 60 * 60 * 1000

\* the instants the clock takes: 0, the expiry instant of a session created
\* at 0, and 25 hours
Times == {0, SessionTTL, SessionTTL + Hour}

T1 == <<"A","B","C","D","1","2","3","4">>
T2 == <<"W","X","Y","Z","5","6","7","8">>
Tokens == {T1, T2}

NoFile == [exists |-> FALSE]

\* a file that is there but that fs.readFileSync or JSON.parse throws on
CorruptFile == [exists |-> TRUE, corrupt |-> TRUE]

\* fs.existsSync(sessionFile)
existsSync(store, token) == token \in DOMAIN store /\ store[token] # NoFile

\* fs.unlinkSync(sessionFile)
unlinkSync(store, token) == [store EXCEPT ![token] = NoFile]

_saveSession(store, token, sessionData, t) ==
    [store EXCEPT ![token] =
        [exists |-> TRUE,
         token |-> token,
         timestamp |-> t,
         expiresAt |-> t + SessionTTL,
         channel |-> "feishu",
         receiveId |-> sessionData.receiveId,
         receiveType |-> sessionData.receiveType,
         conversationContext |-> sessionData.conversationContext]]

\* the session part of FeishuChannel._formatMessage: the record saved for the
\* token the generator returned
_formatMessage(config, store, token, t) ==
    _saveSession(store, token,
        [receiveId |-> IF config.userId # "" THEN config.userId ELSE config.groupId,
         receiveType |-> IF config.userId # "" THEN "user" ELSE "group",
         conversationContext |-> [session |-> "claude-session", timestamp |-> t]],
        t)

\* a faulty _loadSession: the expired record is refused but its file stays
_loadSession_keepsFile(store, token, t) ==
    IF ~existsSync(store, token)
    THEN [session |-> NULL, store |-> store]
    ELSE IF store[token] = CorruptFile
    THEN [session |-> NULL, store |-> store]
    ELSE IF t > store[token].expiresAt
    THEN [session |-> NULL, store |-> store]
    ELSE [session |-> store[token], store |-> store]

\* a faulty _loadSession: a file that cannot be read is deleted
_loadSession_unlinksUnreadable(store, token, t) ==
    IF ~existsSync(store, token)
    THEN [session |-> NULL, store |-> store]
    ELSE IF store[token] = CorruptFile
    THEN [session |-> NULL, store |-> unlinkSync(store, token)]
    ELSE IF t > store[token].expiresAt
    THEN [session |-> NULL, store |-> unlinkSync(store, token)]
    ELSE [session |-> store[token], store |-> store]

\* FeishuChannel._loadSession at time t: the session returned and the store
\* left; an error of readFileSync or JSON.parse is caught and null returned
_loadSession(store, token, t) ==
    IF ~existsSync(store, token)
    THEN [session |-> NULL, store |-> store]
    ELSE IF store[token] = CorruptFile
    THEN [session |-> NULL, store |-> store]
    ELSE IF t > store[token].expiresAt
    THEN [session |-> NULL, store |-> unlinkSync(store, token)]
    ELSE [session |-> store[token], store |-> store]

\* a faulty _findActiveSession: the first session that is not expired, whoever
\* it was created for
RECURSIVE _findActiveSession_anyReceiver(_, _, _, _)
_findActiveSession_anyReceiver(store, senderId, t, order) ==
    IF order = <<>> THEN [session |-> NULL, store |-> store]
    ELSE IF store[Head(order)] = CorruptFile THEN [session |-> NULL, store |-> store]
    ELSE IF t > store[Head(order)].expiresAt
    THEN _findActiveSession_anyReceiver(unlinkSync(store, Head(order)), senderId, t,
                                        Tail(order))
    ELSE [session |-> store[Head(order)], store |-> store]

\* FeishuWebhookHandler._findActiveSession at time t; order is the order in
\* which fs.readdirSync lists the feishu_ files; an error of readFileSync or
\* JSON.parse ends the loop in the catch block, which returns null
RECURSIVE _findActiveSession(_, _, _, _)
_findActiveSession(store, senderId, t, order) ==
    IF order = <<>> THEN [session |-> NULL, store |-> store]
    ELSE
    LET file == Head(order)
        sessionData == store[file]
    IN  IF sessionData = CorruptFile THEN [session |-> NULL, store |-> store]
        ELSE IF t > sessionData.expiresAt
        THEN _findActiveSession(unlinkSync(store, file), senderId, t, Tail(order))
        ELSE IF sessionData.receiveId = senderId
        THEN [session |-> sessionData, store |-> store]
        ELSE _findActiveSession(store, senderId, t, Tail(order))

\* the listings fs.readdirSync may give for the files present
Listings(store) ==
    LET present == {k \in DOMAIN store : store[k] # NoFile}
    IN  {o \in UNION {[1..n -> present] : n \in {Cardinality(present)}} :
            \A i, j \in DOMAIN o : i # j => o[i] # o[j]}

-----------------------------------------------------------------------------
(* Inbound authentication *)

\* sender.sender_id.user_id || sender.sender_id.open_id
SenderId(sender) == IF sender.userId # "" THEN sender.userId ELSE sender.openId

_validateSender(config, sender) ==
    IF config.whitelist # {}
    THEN LET senderId == SenderId(sender)
         IN  ~(senderId = "" \/ senderId \notin config.whitelist)
    ELSE TRUE

\* webhook.js _verifySignature: the base64 HMAC-SHA256 of
\* timestamp \n verificationToken \n body; a signature is named by the message
\* and encoding it was computed with, "forged" being any other value
_verifySignature(config, signature) ==
    IF ~config.verificationToken THEN TRUE
    ELSE signature = "canonical"

\* feishu.js _verifySignature: the signature is compared with the hex and the
\* base64 HMAC of nine messages (format1..format9), the canonical one among
\* them; _handleWebhook of feishu.js does not call it
feishu_verifySignature(config, signature) ==
    IF ~config.verificationToken THEN TRUE
    ELSE signature \in {"canonical", "alternate"}

-----------------------------------------------------------------------------
(* Command handling: what a handler does up to its first wait, as an outcome: *)
(* the store it leaves, the lookups it made, the injector call it started and *)
(* the message it goes on to send.                                            *)

\* the texts of the acknowledgments (feishu.js 984, 997, 1000, 1004, 1032, 1240
\* and webhook.js 316)
MsgInvalidToken == "invalid session token"
MsgSuccess == "command executed"
MsgFailed == "command failed"
MsgError == "command error"
MsgNoSession == "no active session, wait for the task to finish"
MsgEnterCommand == "enter a valid command"
MsgFailedCheckToken == "command failed, check that the token is valid"

NoLookup == [done |-> FALSE, token |-> <<>>, found |-> FALSE, receiveId |-> ""]
NoScan == [done |-> FALSE, senderId |-> "", found |-> <<>>, receiveId |-> ""]
NoCall == [invoked |-> FALSE, command |-> <<>>, sessionName |-> "", token |-> <<>>]

\* nothing looked up, nothing injected, nothing sent
Ignored(store) ==
    [store |-> store, next |-> "done", lookup |-> NoLookup, scan |-> NoScan,
     call |-> NoCall, reply |-> "", onOk |-> "", onFail |-> "", onThrow |-> "",
     thrown |-> FALSE, caught |-> FALSE]

\* an error is thrown before anything was looked up, injected or sent
Throws(store) == [Ignored(store) EXCEPT !.thrown = TRUE]

\* a faulty catch block: the error goes on to the caller
Catch_rethrows(o) == o

\* try { ... } catch (error) { this.logger.error(...) }: an error thrown inside
\* is logged and goes no further
Catch(o) ==
    IF o.thrown THEN [o EXCEPT !.thrown = FALSE, !.caught = TRUE] ELSE o

Respond(store, text) ==
    [Ignored(store) EXCEPT !.next = "reply", !.reply = text]

\* session.conversationContext?.session || 'claude-session'
SessionName(session) ==
    IF session.conversationContext # NULL /\ session.conversationContext.session # ""
    THEN session.conversationContext.session
    ELSE "claude-session"

\* what a _loadSession call found, as the request keeps it
Looked(token, l) ==
    [done |-> TRUE, token |-> token, found |-> l.session # NULL,
     receiveId |-> IF l.session = NULL THEN "" ELSE l.session.receiveId]

\* after _loadSession returned l: without a session the caller's message for
\* it, with one the injectCommand call on the session's tmux session
AfterLoad(l, token, command, missMsg, okMsg, failMsg, throwMsg) ==
    IF l.session = NULL
    THEN [Respond(l.store, missMsg) EXCEPT !.lookup = Looked(token, l)]
    ELSE [Ignored(l.store) EXCEPT
            !.next = "inject",
            !.lookup = Looked(token, l),
            !.call = [invoked |-> TRUE, command |-> command,
                      sessionName |-> SessionName(l.session), token |-> token],
            !.onOk = okMsg, !.onFail = failMsg, !.onThrow = throwMsg]

\* a faulty _handleCommand: the command is injected without a look at the session
_handleCommand_noLookup(parsedCommand, store, t) ==
    [Ignored(store) EXCEPT
        !.next = "inject",
        !.call = [invoked |-> TRUE, command |-> parsedCommand.command,
                  sessionName |-> "claude-session", token |-> parsedCommand.token],
        !.onOk = MsgSuccess, !.onFail = MsgFailed, !.onThrow = MsgError]

\* FeishuWebhookHandler._handleCommand of feishu.js, up to the wait on injectCommand
_handleCommand(parsedCommand, store, t) ==
    AfterLoad(_loadSession(store, parsedCommand.token, t),
              parsedCommand.token, parsedCommand.command,
              MsgInvalidToken, MsgSuccess, MsgFailed, MsgError)

\* a faulty handleCommand: a text that parses to no command returns true
HandleParsed_okOnMiss(parsed, store, t, okMsg, failMsg) ==
    IF parsed = NULL THEN Respond(store, okMsg)
    ELSE AfterLoad(_loadSession(store, parsed.token, t),
                   parsed.token, parsed.command,
                   failMsg, okMsg, failMsg, failMsg)

\* FeishuChannel.handleCommand after its _parseCommand call
HandleParsed(parsed, store, t, okMsg, failMsg) ==
    IF parsed = NULL THEN Respond(store, failMsg)
    ELSE AfterLoad(_loadSession(store, parsed.token, t),
                   parsed.token, parsed.command,
                   failMsg, okMsg, failMsg, failMsg)

\* FeishuChannel.handleCommand, up to the wait on injectCommand: it parses the
\* text it is given again; okMsg and failMsg are what its caller sends for the
\* true and false it returns (an exception inside it is caught and returns false)
handleCommand(command, store, t, okMsg, failMsg) ==
    HandleParsed(_parseCommand(command), store, t, okMsg, failMsg)

\* FeishuWebhookHandler._handleCommand of webhook.js
webhook_handleCommand(parsedCommand, store, t) ==
    handleCommand(parsedCommand.command, store, t, MsgSuccess, MsgFailedCheckToken)

HandleCommandOf(config, parsedCommand, store, t) ==
    IF config.variant = "feishu.js"
    THEN _handleCommand(parsedCommand, store, t)
    ELSE webhook_handleCommand(parsedCommand, store, t)

\* after _findActiveSession returned f
DirectWith(f, command, senderId, t) ==
    IF f.session # NULL
    THEN [handleCommand(command, f.store, t, MsgSuccess, MsgFailed)
            EXCEPT !.scan = [done |-> TRUE, senderId |-> senderId,
                             found |-> f.session.token,
                             receiveId |-> f.session.receiveId]]
    ELSE [Respond(f.store, MsgNoSession)
            EXCEPT !.scan = [done |-> TRUE, senderId |-> senderId,
                             found |-> <<>>, receiveId |-> ""]]

\* the event has no sender, or a sender without sender_id: reading
\* sender.sender_id.user_id throws a TypeError
NoSenderId(message) == message.shape \in {"no_sender", "no_sender_id"}

\* FeishuWebhookHandler._handleDirectCommand (the same in both files): an error
\* inside its try block, the read of the sender id included, is answered with
\* the error message
_handleDirectCommand(command, message, sender, store, t, order) ==
    IF NoSenderId(message)
    THEN [Respond(store, MsgError) EXCEPT !.caught = TRUE]
    ELSE DirectWith(_findActiveSession(store, SenderId(sender), t, order),
                    command, SenderId(sender), t)

TextParsed(config, parsedCommand, text, message, sender, store, t, order) ==
    IF parsedCommand # NULL
    THEN HandleCommandOf(config, parsedCommand, store, t)
    ELSE _handleDirectCommand(text, message, sender, store, t, order)

\* a faulty _handleTextMessage: the sender is validated after the command was
\* looked up
_handleTextMessage_validatesLate(config, message, sender, store, t, order) ==
    IF message.shape = "bad_content" THEN Throws(store)
    ELSE IF config.whitelist # {} /\ NoSenderId(message) THEN Throws(store)
    ELSE IF ~_validateSender(config, sender)
    THEN Ignored(TextParsed(config, _parseCommand(trim(message.text)),
                            trim(message.text), message, sender, store, t, order).store)
    ELSE TextParsed(config, _parseCommand(trim(message.text)), trim(message.text),
                    message, sender, store, t, order)

\* FeishuWebhookHandler._handleTextMessage: JSON.parse(message.content) throws
\* on content that is not JSON, _validateSender on a sender without sender_id
\* when a whitelist is configured
_handleTextMessage(config, message, sender, store, t, order) ==
    IF message.shape = "bad_content" THEN Throws(store)
    ELSE IF config.whitelist # {} /\ NoSenderId(message) THEN Throws(store)
    ELSE IF ~_validateSender(config, sender) THEN Ignored(store)
    ELSE TextParsed(config, _parseCommand(trim(message.text)), trim(message.text),
                    message, sender, store, t, order)

_handleInteractiveMessage(config, message, sender, store, t) ==
    IF config.whitelist # {} /\ NoSenderId(message) THEN Throws(store)
    ELSE IF ~_validateSender(config, sender) THEN Ignored(store)
    ELSE
    LET action == message.action
    IN  IF ~action.present THEN Ignored(store)
        ELSE IF action.cmd = "/cmd" /\ action.token # <<>> /\ action.command # <<>>
        THEN HandleCommandOf(config,
                [token |-> action.token, command |-> action.command], store, t)
        ELSE Ignored(store)

\* a faulty _handleMessage: a message of any other type is handled as text
_handleMessage_anyTypeAsText(config, event, store, t, order) ==
    Catch(IF event.shape \in {"no_event", "no_message"} THEN Throws(store)
          ELSE IF event.msgType = "interactive"
          THEN _handleInteractiveMessage(config, event, event.sender, store, t)
          ELSE _handleTextMessage(config, event, event.sender, store, t, order))

\* FeishuWebhookHandler._handleMessage: event.event.message and
\* message.msg_type throw on an event without event or message; everything is
\* inside its try block
_handleMessage(config, event, store, t, order) ==
    Catch(IF event.shape \in {"no_event", "no_message"} THEN Throws(store)
          ELSE IF event.msgType = "text"
          THEN _handleTextMessage(config, event, event.sender, store, t, order)
          ELSE IF event.msgType = "interactive"
          THEN _handleInteractiveMessage(config, event, event.sender, store, t)
          ELSE Ignored(store))

\* a faulty _handleCardAction: the submitted form field is used as it is, not
\* trimmed
_handleCardAction_untrimmed(config, event, store, t) ==
    LET action == event.action
    IN  IF ~action.present THEN Ignored(store)
        ELSE IF action.cmd = "/cmd" /\ action.token # <<>> /\ action.command # <<>>
        THEN _handleCommand([token |-> action.token, command |-> action.command],
                            store, t)
        ELSE IF action.cmd = "/cmd" /\ action.token # <<>>
        THEN IF action.input # <<>>
             THEN _handleCommand([token |-> action.token, command |-> action.input],
                                 store, t)
             ELSE Respond(store, MsgEnterCommand)
        ELSE Ignored(store)

\* FeishuWebhookHandler._handleCardAction (feishu.js): the command comes from
\* the button's value or, without one, from the submitted form field
_handleCardAction(config, event, store, t) ==
    LET action == event.action
    IN  IF ~action.present THEN Ignored(store)
        ELSE IF action.cmd = "/cmd" /\ action.token # <<>> /\ action.command # <<>>
        THEN _handleCommand([token |-> action.token, command |-> action.command],
                            store, t)
        ELSE IF action.cmd = "/cmd" /\ action.token # <<>>
        THEN LET customCommand == IF action.input # <<>> THEN trim(action.input) ELSE <<>>
             IN  IF customCommand # <<>>
                 THEN _handleCommand([token |-> action.token, command |-> customCommand],
                                     store, t)
                 ELSE Respond(store, MsgEnterCommand)
        ELSE Ignored(store)

\* the HTTP answer of a request that is not answered yet
Pending == "pending"

\* a faulty _handleVerification: the request is accepted without the challenge
_handleVerification_noEcho(challenge) ==
    IF challenge # "" THEN [http |-> "200", challenge |-> ""]
    ELSE [http |-> "400", challenge |-> ""]

\* FeishuWebhookHandler._handleVerification (GET /webhook/feishu): the status
\* and the challenge answered
_handleVerification(challenge) ==
    IF challenge # "" THEN [http |-> "200", challenge |-> challenge]
    ELSE [http |-> "400", challenge |-> ""]

\* a faulty header test: a request without x-lark-signature is let through
MissingSignature_never(event) == FALSE

\* !signature: none of the x-lark-signature headers is there
MissingSignature(event) == event.signature = "absent"

\* the handler was awaited inside the try block of _handleWebhook: an error
\* that reaches its catch block is answered with res.status(500)
Awaited(inner, passed) ==
    [o |-> Catch(inner),
     http |-> IF inner.thrown /\ ~Catch(inner).thrown THEN "500" ELSE Pending,
     passed |-> passed, challenge |-> ""]

\* FeishuWebhookHandler._handleWebhook up to its first wait: the outcome of the
\* handling, the status answered at once (401, or 200 for a verification) and
\* whether the event was passed to _handleMessage / _handleCardAction
_handleWebhook(config, event, store, t, order) ==
    LET Answer(o, status, passed, challenge) ==
            [o |-> o, http |-> status, passed |-> passed, challenge |-> challenge]
    IN  IF event.type = "url_verification"
        THEN Answer(Ignored(store), "200", FALSE, event.challenge)
        ELSE IF /\ config.verificationToken
                /\ event.eventType = "im.message.receive_v1"
                /\ MissingSignature(event)
        THEN Answer(Ignored(store), "401", FALSE, "")
        ELSE IF /\ config.variant = "webhook.js"
                /\ config.verificationToken
                /\ event.eventType = "im.message.receive_v1"
                /\ ~_verifySignature(config, event.signature)
        THEN Answer(Ignored(store), "401", FALSE, "")
        ELSE IF event.eventType = "im.message.receive_v1"
        THEN Awaited(_handleMessage(config, event, store, t, order), TRUE)
        ELSE IF config.variant = "feishu.js" /\ event.eventType = "card.action.trigger"
        THEN Awaited(Catch(_handleCardAction(config, event, store, t)), TRUE)
        ELSE Answer(Ignored(store), Pending, FALSE, "")

-----------------------------------------------------------------------------------------------------------------------------------------------------
(* Inbound events *)

NoAction == [present |-> FALSE, cmd |-> "", token |-> <<>>, command |-> <<>>,
             input |-> <<>>]
NoSender == [userId |-> "", openId |-> ""]
User(id) == [userId |-> id, openId |-> ""]

Event(eventType, signature, msgType, sender, text, action) ==
    [type |-> "event", challenge |-> "", eventType |-> eventType,
     signature |-> signature, msgType |-> msgType, sender |-> sender,
     text |-> text, action |-> action, shape |-> "ok", chatType |-> "p2p"]

Button(token, command, input) ==
    [present |-> TRUE, cmd |-> "/cmd", token |-> token, command |-> command,
     input |-> input]

Ls == <<"l","s">>
Blank == <<" ">>
Slash(token, command) == KwCmd \o <<" ">> \o token \o <<" ">> \o command

\* x-lark-signature: none, a value that matches no HMAC of the request, the
\* base64 HMAC of timestamp \n token \n body, or an HMAC of another message or
\* in another encoding (the hex HMAC of timestamp + body, say)
Signatures == {"absent", "forged", "canonical", "alternate"}

\* sender_id of the events: user_id U1, user_id U2, only open_id U1, or
\* user_id U2 with open_id U1
Senders ==
    {User("U1"), User("U2"), [userId |-> "", openId |-> "U1"],
     [userId |-> "U2", openId |-> "U1"]}

\* /cmd <token> ls for a token that may have a session and for one that never
\* has, a bare reply, and a command whose text is itself a command line
Texts == {Slash(T1, Ls), Slash(T2, Ls), Ls, Slash(T2, Slash(T1, Ls))}

TextEvents ==
    {Event("im.message.receive_v1", sig, "text", s, x, NoAction) :
        sig \in Signatures, s \in Senders, x \in Texts}

InteractiveEvents ==
    {Event("im.message.receive_v1", sig, "interactive", s, <<>>, Button(T1, Ls, <<>>)) :
        sig \in {"forged", "canonical"}, s \in {User("U1"), User("U2")}}

CardEvents ==
    {Event("card.action.trigger", sig, "", s, <<>>, a) :
        sig \in {"forged", "canonical"}, s \in {User("U1"), User("U2")},
        a \in {Button(T1, Ls, <<>>), Button(T1, <<>>, Ls), Button(T1, <<>>, Blank),
               Button(T1, <<>>, <<>>)}}

OtherEvents ==
    {[Event("", "absent", "", NoSender, <<>>, NoAction)
        EXCEPT !.type = "url_verification", !.challenge = "c1"],
     [Event("im.message.receive_v1", "forged", "text", User("U2"), Slash(T1, Ls), NoAction)
        EXCEPT !.type = "url_verification", !.challenge = "c2"],
     Event("im.message.read_v1", "absent", "", NoSender, <<>>, NoAction),
     Event("im.message.receive_v1", "canonical", "image", User("U1"), <<>>, NoAction),
     Event("im.message.receive_v1", "absent", "image", User("U1"), <<>>, NoAction)}

\* message events with a part missing (event, event.message, event.sender,
\* sender.sender_id, or JSON in message.content); what is not there is left empty
MalformedEvents ==
    {[Event("im.message.receive_v1", "canonical", "", NoSender, <<>>, NoAction)
        EXCEPT !.shape = s] : s \in {"no_event", "no_message"}}
    \cup {[Event("im.message.receive_v1", "canonical", "text", User("U1"), <<>>, NoAction)
        EXCEPT !.shape = "bad_content"]}
    \cup {[Event("im.message.receive_v1", "canonical", "text", NoSender, x, NoAction)
        EXCEPT !.shape = s] : s \in {"no_sender", "no_sender_id"}, x \in {Slash(T1, Ls), Ls}}
    \cup {[Event("im.message.receive_v1", "canonical", "interactive", NoSender, <<>>,
                 Button(T1, Ls, <<>>))
        EXCEPT !.shape = "no_sender"]}

\* messages sent in a group chat (message.chat_type is group)
GroupEvents ==
    {[Event("im.message.receive_v1", "canonical", "text", User("U1"), x, NoAction)
        EXCEPT !.chatType = "group"] : x \in {Slash(T1, Ls), Ls}}

Events ==
    TextEvents \cup InteractiveEvents \cup CardEvents \cup OtherEvents
        \cup MalformedEvents \cup GroupEvents

\* a message or card event, the two kinds that can carry a command
IsCommandBearing(event) ==
    /\ event.type = "event"
    /\ event.eventType \in {"im.message.receive_v1", "card.action.trigger"}

-----------------------------------------------------------------------------
(* State machine *)

\* no message was handed to _sendMessage
NoAddress == [receiveId |-> "", receiveType |-> ""]

\* FeishuWebhookHandler._sendResponse: the receiveId and receiveType it gives
\* to _sendMessage. feishu.js takes them from the configuration; webhook.js
\* takes the sender's id (a TypeError without sender_id is caught and nothing
\* is sent) and tests context.chat_type, which the context built by
\* _handleTextMessage does not have (its key is chatType)
_sendResponse(config, event) ==
    IF config.variant = "feishu.js"
    THEN [receiveId |-> IF config.userId # "" THEN config.userId ELSE config.groupId,
          receiveType |-> IF config.userId # "" THEN "user" ELSE "group"]
    ELSE IF NoSenderId(event) THEN NoAddress
    ELSE [receiveId |-> SenderId(event.sender), receiveType |-> "group"]

\* the budget of a session record (maxCommands: 10)
maxCommands == 10

\* commands per session a behaviour of Spec goes up to
MaxReceived == 1

\* requests in flight at once in SpecBudget
NumWorkers == 2

Configs ==
    {[variant |-> v, verificationToken |-> vt, whitelist |-> wl,
      userId |-> "U1", groupId |-> ""] :
        v \in {"feishu.js", "webhook.js"}, vt \in BOOLEAN, wl \in {{}, {"U1"}}}

Idle ==
    [pc |-> "idle", event |-> Event("", "absent", "", NoSender, <<>>, NoAction),
     http |-> Pending, passed |-> FALSE, challenge |-> "",
     lookup |-> NoLookup, scan |-> NoScan, call |-> NoCall, result |-> "",
     reply |-> "", onOk |-> "", onFail |-> "", onThrow |-> "",
     calls |-> 0, responses |-> 0, messages |-> 0, caught |-> FALSE,
     escaped |-> FALSE, sentTo |-> NoAddress]

NoGen == [kind |-> "", random |-> <<>>, token |-> <<>>, done |-> FALSE]

\* no text parsed
NoParse ==
    [pre |-> <<>>, kw |-> <<>>, sep1 |-> <<>>, token |-> <<>>, sep2 |-> <<>>,
     cmd |-> <<>>, text |-> <<>>, result |-> NULL, done |-> FALSE]

\* no notification being sent
NoSend ==
    [pc |-> "idle", channel |-> "", token |-> <<>>, sessionId |-> "",
     persisted |-> FALSE, handed |-> FALSE, result |-> ""]

\* a session file or a session-map entry that is not there
NoEntry == [exists |-> FALSE]

SessionIds == {"s1", "s2"}

\* no email session was created yet
NoMail ==
    [files |-> [i \in SessionIds |-> NoEntry], map |-> [k \in Tokens |-> NoEntry]]

\* processes that send email notifications at the same time
NumCreators == 2

\* a process outside _createSession
NoCreator ==
    [pc |-> "idle", token |-> <<>>, sessionId |-> "", tmuxSession |-> "",
     sessionMap |-> [k \in Tokens |-> NoEntry]]

NoCreators == [p \in 1..NumCreators |-> NoCreator]

\* no lookup or scan was made
NoProbe ==
    [kind |-> "", store |-> [k \in Tokens |-> NoFile], token |-> <<>>,
     senderId |-> "", order |-> <<>>, t |-> 0, done |-> FALSE,
     session |-> NULL, after |-> [k \in Tokens |-> NoFile], invoked |-> FALSE,
     reply |-> ""]

\* FeishuChannel after its constructor: accessToken = null, tokenExpiry = null
NoAuth ==
    [accessToken |-> NULL, tokenExpiry |-> 0, issued |-> 0,
     pc |-> "idle", at |-> 0, requested |-> FALSE, returned |-> NULL,
     before |-> [accessToken |-> NULL, tokenExpiry |-> 0]]

Init ==
    /\ cfg \in Configs
    /\ now = 0
    /\ sessions = [k \in {T1} |-> NoFile]
    /\ req = [w \in {1} |-> Idle]
    /\ injectCount = [k \in {T1} |-> 0]
    /\ received = [k \in {T1} |-> 0]
    /\ reclaimed = {}
    /\ gen = NoGen
    /\ parse = NoParse
    /\ send = NoSend
    /\ mail = NoMail
    /\ creators = NoCreators
    /\ probe = NoProbe
    /\ auth = NoAuth

\* no finished request is waiting to be looked at: what a request did stays
\* in req until Close, and the environment moves on after that
Quiet == \A w \in DOMAIN req : req[w].pc # "done"

\* time passes
Tick ==
    /\ Quiet
    /\ \E t \in Times : t > now /\ now' = t
    /\ UNCHANGED <<cfg, sessions, req, injectCount, received, reclaimed, gen, parse, send, mail, creators, probe, auth>>

\* FeishuChannel._sendImpl: a notification is formatted, which saves a session
\* under the token the generator returned
SendNotification(token) ==
    /\ Quiet
    /\ sessions' = _formatMessage(cfg, sessions, token, now)
    /\ injectCount' = [injectCount EXCEPT ![token] = 0]
    /\ received' = [received EXCEPT ![token] = 0]
    /\ reclaimed' = reclaimed \ {token}
    /\ UNCHANGED <<cfg, now, req, gen, parse, send, mail, creators, probe, auth>>

\* the tokens whose file a _loadSession call of the outcome found past expiresAt
FoundExpired(o) ==
    {k \in DOMAIN sessions : /\ o.lookup.done /\ o.lookup.token = k
                             /\ existsSync(sessions, k) /\ now > sessions[k].expiresAt}

\* a POST /webhook/feishu arrives and is handled up to the first wait; at most
\* cap commands per session are explored
Arrive(w, event, cap) ==
    /\ req[w].pc = "idle"
    /\ \E order \in Listings(sessions) :
       \E a \in {_handleWebhook(cfg, event, sessions, now, order)} :
        /\ sessions' = a.o.store
        /\ injectCount' =
             IF a.o.call.invoked
             THEN [injectCount EXCEPT ![a.o.call.token] = @ + 1]
             ELSE injectCount
        /\ received' =
             IF a.o.lookup.found
             THEN [received EXCEPT ![a.o.lookup.token] = @ + 1]
             ELSE received
        /\ \A k \in DOMAIN received : received'[k] <= cap
        /\ reclaimed' = reclaimed \cup FoundExpired(a.o)
        /\ req' = [req EXCEPT ![w] =
             [pc |-> CASE a.o.next = "inject" -> "injecting"
                       [] a.o.next = "reply" -> "replying"
                       [] OTHER -> "done",
              event |-> event,
              http |-> IF a.http # Pending THEN a.http
                       ELSE IF a.o.next = "done" /\ ~a.o.thrown THEN "200"
                       ELSE Pending,
              passed |-> a.passed, challenge |-> a.challenge,
              lookup |-> a.o.lookup, scan |-> a.o.scan, call |-> a.o.call,
              result |-> "", reply |-> a.o.reply,
              onOk |-> a.o.onOk, onFail |-> a.o.onFail, onThrow |-> a.o.onThrow,
              calls |-> IF a.o.call.invoked THEN 1 ELSE 0,
              responses |-> IF a.o.thrown THEN 0
                            ELSE IF a.http # Pending \/ a.o.next = "done" THEN 1
                            ELSE 0,
              messages |-> 0,
              caught |-> a.o.caught, escaped |-> a.o.thrown,
              sentTo |-> NoAddress]]
    /\ UNCHANGED <<cfg, now, gen, parse, send, mail, creators, probe, auth>>

\* GET /webhook/feishu arrives with or without a challenge in its query
Verify(w, challenge) ==
    /\ req[w].pc = "idle"
    /\ req' = [req EXCEPT ![w] =
         [Idle EXCEPT !.pc = "done",
                      !.event = [Idle.event EXCEPT !.type = "get_verification",
                                                   !.challenge = challenge],
                      !.http = _handleVerification(challenge).http,
                      !.challenge = _handleVerification(challenge).challenge,
                      !.responses = 1]]
    /\ UNCHANGED <<cfg, now, sessions, injectCount, received, reclaimed, gen, parse, send, mail, creators, probe, auth>>

\* a faulty handler: after a failed injection the injector is called once more
InjectDone_retries(w, result) ==
    /\ req[w].pc = "injecting"
    /\ IF result # "ok" /\ req[w].calls < 2
       THEN /\ req' = [req EXCEPT ![w].calls = @ + 1]
            /\ injectCount' = [injectCount EXCEPT ![req[w].call.token] = @ + 1]
       ELSE /\ req' = [req EXCEPT ![w].pc = "replying",
                                  ![w].result = result,
                                  ![w].reply = CASE result = "ok" -> req[w].onOk
                                                 [] result = "fail" -> req[w].onFail
                                                 [] OTHER -> req[w].onThrow]
            /\ injectCount' = injectCount
    /\ UNCHANGED <<cfg, now, sessions, received, reclaimed, gen, parse, send, mail, creators, probe, auth>>

\* injectCommand returns true, returns false or throws
InjectDone(w, result) ==
    /\ req[w].pc = "injecting"
    /\ req' = [req EXCEPT ![w].pc = "replying",
                          ![w].result = result,
                          ![w].reply = CASE result = "ok" -> req[w].onOk
                                         [] result = "fail" -> req[w].onFail
                                         [] OTHER -> req[w].onThrow]
    /\ UNCHANGED <<cfg, now, sessions, injectCount, received, reclaimed, gen, parse, send, mail, creators, probe, auth>>

\* _sendResponse is over (whether or not the message was delivered) and the
\* handler answers res.json({ ok: true })
ResponseSent(w) ==
    /\ req[w].pc = "replying"
    /\ req' = [req EXCEPT ![w].pc = "done", ![w].http = "200",
                          ![w].responses = @ + 1,
                          ![w].messages = @ + 1,
                          ![w].sentTo = _sendResponse(cfg, req[w].event)]
    /\ UNCHANGED <<cfg, now, sessions, injectCount, received, reclaimed, gen, parse, send, mail, creators, probe, auth>>

\* the finished request leaves the worker
Close(w) ==
    /\ req[w].pc = "done"
    /\ req' = [req EXCEPT ![w] = Idle]
    /\ UNCHANGED <<cfg, now, sessions, injectCount, received, reclaimed, gen, parse, send, mail, creators, probe, auth>>

Next ==
    \/ Tick
    \/ \E token \in DOMAIN sessions : SendNotification(token)
    \/ \E w \in DOMAIN req, event \in Events : Arrive(w, event, MaxReceived)
    \/ \E w \in DOMAIN req, challenge \in {"", "c1"} : Verify(w, challenge)
    \/ \E w \in DOMAIN req, result \in {"ok", "fail", "throw"} : InjectDone(w, result)
    \/ \E w \in DOMAIN req : ResponseSent(w)
    \/ \E w \in DOMAIN req : Close(w)

Spec == Init /\ [][Next]_vars

-----------------------------------------------------------------------------
(* Command budget: several requests in flight on one live session *)

\* the handler with no signature check and no whitelist configured
BudgetConfigs == {c \in Configs : ~c.verificationToken /\ c.whitelist = {}}

\* /cmd <token> ls on the live session, the same wrapped in a command line
\* for a token without a session, and a bare reply
BudgetEvents ==
    {Event("im.message.receive_v1", "canonical", "text", User("U1"), x, NoAction) :
        x \in {Slash(T1, Ls), Slash(T2, Slash(T1, Ls)), Ls}}

\* a notification was sent at time 0: the session of T1 is live and unused
InitBudget ==
    /\ cfg \in BudgetConfigs
    /\ now = 0
    /\ sessions = _formatMessage(cfg, [k \in {T1} |-> NoFile], T1, 0)
    /\ req = [w \in 1..NumWorkers |-> Idle]
    /\ injectCount = [k \in {T1} |-> 0]
    /\ received = [k \in {T1} |-> 0]
    /\ reclaimed = {}
    /\ gen = NoGen
    /\ parse = NoParse
    /\ send = NoSend
    /\ mail = NoMail
    /\ creators = NoCreators
    /\ probe = NoProbe
    /\ auth = NoAuth

NextBudget ==
    \/ \E w \in DOMAIN req, event \in BudgetEvents : Arrive(w, event, maxCommands + 1)
    \/ \E w \in DOMAIN req, result \in {"ok", "fail", "throw"} : InjectDone(w, result)
    \/ \E w \in DOMAIN req : ResponseSent(w)
    \/ \E w \in DOMAIN req : Close(w)

SpecBudget == InitBudget /\ [][NextBudget]_vars

-----------------------------------------------------------------------------
(* Token generators *)

\* the digits of Number.prototype.toString(36)
Base36Chars == DigitChars \o LowerLetters

\* Number.prototype.toString(36) of a value in [0, 1) whose base-36 fraction
\* digits are frac (none for 0, the last one not 0)
toString36(frac) ==
    IF frac = <<>> THEN <<"0">>
    ELSE <<"0", ".">> \o [i \in 1..Len(frac) |-> Base36Chars[frac[i] + 1]]

\* FeishuChannel._generateSessionToken, frac being what Math.random() returned
_generateSessionToken(frac) ==
    [i \in 1..Len(substring(toString36(frac), 2, 10)) |->
        toUpperCase(substring(toString36(frac), 2, 10)[i])]

\* the alphabet of SMTPChannel._generateToken
chars == UpperLetters \o DigitChars

\* SMTPChannel._generateToken, draws[i] being Math.floor(Math.random() *
\* chars.length) of the i-th round of its loop
RECURSIVE _generateToken(_)
_generateToken(draws) ==
    IF draws = <<>> THEN <<>>
    ELSE _generateToken(SubSeq(draws, 1, Len(draws) - 1))
            \o <<chars[draws[Len(draws)] + 1]>>

\* longest base-36 fraction of a Math.random() value the model draws
MaxFracDigits == 9

\* base-36 digit values the model draws: 0, i and z
FracDigits == {0, 18, 35}

\* Math.random() values, as their base-36 fraction digits
FeishuRandoms ==
    {f \in UNION {[1..n -> FracDigits] : n \in 0..MaxFracDigits} :
        f = <<>> \/ f[Len(f)] # 0}

\* the eight draws of the email generator: A, 0 and 9
EmailRandoms == [1..8 -> {0, 26, 35}]

InitGen ==
    /\ cfg \in BudgetConfigs
    /\ now = 0
    /\ sessions = [k \in {T1} |-> NoFile]
    /\ req = [w \in {1} |-> Idle]
    /\ injectCount = [k \in {T1} |-> 0]
    /\ received = [k \in {T1} |-> 0]
    /\ reclaimed = {}
    /\ \/ \E f \in FeishuRandoms : gen = [NoGen EXCEPT !.kind = "feishu", !.random = f]
       \/ \E d \in EmailRandoms : gen = [NoGen EXCEPT !.kind = "email", !.random = d]
    /\ parse = NoParse
    /\ send = NoSend
    /\ mail = NoMail
    /\ creators = NoCreators
    /\ probe = NoProbe
    /\ auth = NoAuth

GenerateFeishu ==
    /\ gen.kind = "feishu" /\ ~gen.done
    /\ gen' = [gen EXCEPT !.token = _generateSessionToken(gen.random), !.done = TRUE]
    /\ UNCHANGED <<cfg, now, sessions, req, injectCount, received, reclaimed, parse, send, mail, creators, probe, auth>>

GenerateEmail ==
    /\ gen.kind = "email" /\ ~gen.done
    /\ gen' = [gen EXCEPT !.token = _generateToken(gen.random), !.done = TRUE]
    /\ UNCHANGED <<cfg, now, sessions, req, injectCount, received, reclaimed, parse, send, mail, creators, probe, auth>>

NextGen ==
    \/ GenerateFeishu
    \/ GenerateEmail

SpecGen == InitGen /\ [][NextGen]_vars

-----------------------------------------------------------------------------
(* Properties *)

Min(a, b) == IF a < b THEN a ELSE b

\* the step in which worker w takes a request and handles it to its first wait
Handles(w) == req[w].pc = "idle" /\ req'[w].pc # "idle"

\* C1: a session never has more than maxCommands commands injected: the
\* command that would pass the budget is refused and not injected
C1_BudgetNeverExceeded ==
    \A k \in DOMAIN injectCount : injectCount[k] <= maxCommands

\* C2: of N valid commands on a session with k commands of budget left,
\* exactly min(N, k) are injected, however the requests interleave
C2_ExactlyMinProceed ==
    (\A w \in DOMAIN req : req[w].pc \in {"idle", "done"}) =>
        \A k \in DOMAIN injectCount :
            injectCount[k] = Min(received[k], maxCommands)

\* C3: with a verification token configured, a message or card event whose
\* signature is forged is answered 401, is not handed to a handler and
\* injects nothing
C3_ForgedSignatureRejected ==
    \A w \in DOMAIN req :
        (/\ req[w].pc # "idle"
         /\ cfg.verificationToken
         /\ IsCommandBearing(req[w].event)
         /\ req[w].event.signature = "forged")
        => /\ req[w].http = "401"
           /\ ~req[w].passed
           /\ ~req[w].call.invoked

\* C4: the session lookup of a request never finds a record whose expiresAt
\* is at or before the time of the lookup: at now = expiresAt it is not found
C4_LookupRefusesAtExpiry ==
    [][\A w \in DOMAIN req :
        (Handles(w) /\ req'[w].lookup.found)
        => ~(sessions[req'[w].lookup.token].expiresAt <= now)]_vars

\* C5: once a lookup has found a token's record past its expiry, the record
\* is deleted and every lookup of the token is not-found until a new session
\* is saved under it
C5_ExpiredLookupDeletes ==
    /\ \A k \in reclaimed :
        /\ ~existsSync(sessions, k)
        /\ _loadSession(sessions, k, now).session = NULL
    /\ \A w \in DOMAIN req :
        (req[w].lookup.done /\ req[w].lookup.token \in reclaimed)
        => ~req[w].lookup.found /\ ~req[w].call.invoked

C5_Witness ==
    \E w \in DOMAIN req :
        /\ req[w].lookup.done
        /\ req[w].lookup.token \in reclaimed
        /\ ~req[w].lookup.found
        /\ sessions[req[w].lookup.token] = NoFile

\* the replies that tell the sender the token is invalid or expired
InvalidSessionReplies == {MsgInvalidToken, MsgFailedCheckToken}

C7_WhitelistEnforced ==
    \A w \in DOMAIN req :
        (cfg.whitelist # {} /\ req[w].call.invoked)
        => SenderId(req[w].event.sender) \in cfg.whitelist

\* C8: a command is injected only for the user or group its token's session
\* was created for
C8_TokenBoundToReceiver ==
    \A w \in DOMAIN req :
        req[w].call.invoked
        => SenderId(req[w].event.sender) = req[w].lookup.receiveId

C10_TokenFormat ==
    gen.done =>
        /\ Len(gen.token) = 8
        /\ \A i \in DOMAIN gen.token : IsUpperAlnum(gen.token[i])

-----------------------------------------------------------------------------
(* Command parsing: texts put together from a prefix, a keyword, a token and *)
(* a command, and what _parseCommand makes of them                            *)

ParsePrefixes == {<<>>, <<"x">>}

\* /cmd and Token in several cases, and no keyword
ParseKeywords ==
    {KwCmd, <<"/","C","m","d">>, KwToken, <<"T","o","k","e","n">>,
     <<"T","O","K","E","N">>, <<>>}

ParseSeparators == {<<" ">>, <<"\n">>, <<" ", " ">>}

\* tokens of 8 characters in upper, lower and mixed case, of 7 and of 9
ParseTokens ==
    {T1, <<"a","b","c","d","1","2","3","4">>, <<"a","B","c","D","1","2","3","4">>,
     <<"A","B","C","D","1","2","3">>, <<"A","B","C","D","1","2","3","4","5">>}

\* commands: one word, two words, padded, two lines, only a space, a command
\* line for another token, and none
ParseCommands ==
    {Ls, <<"l"," ","s">>, <<" ","l","s"," ">>, <<"a","\n","b">>, Blank,
     Slash(T2, <<"y">>), <<>>}

ParseInputs ==
    {[NoParse EXCEPT !.pre = p, !.kw = k, !.sep1 = s1, !.token = t, !.sep2 = s2,
                     !.cmd = c, !.text = p \o k \o s1 \o t \o s2 \o c] :
        p \in ParsePrefixes, k \in ParseKeywords, s1 \in {<<>>, <<" ">>, <<" ", " ">>},
        t \in ParseTokens, s2 \in ParseSeparators, c \in ParseCommands}

InitParse ==
    /\ cfg \in {c \in BudgetConfigs : c.variant = "feishu.js"}
    /\ now = 0
    /\ sessions = [k \in {T1} |-> NoFile]
    /\ req = [w \in {1} |-> Idle]
    /\ injectCount = [k \in {T1} |-> 0]
    /\ received = [k \in {T1} |-> 0]
    /\ reclaimed = {}
    /\ gen = NoGen
    /\ parse \in ParseInputs
    /\ send = NoSend
    /\ mail = NoMail
    /\ creators = NoCreators
    /\ probe = NoProbe
    /\ auth = NoAuth

\* the text is parsed
ParseText ==
    /\ ~parse.done
    /\ parse' = [parse EXCEPT !.result = _parseCommand(parse.text), !.done = TRUE]
    /\ UNCHANGED <<cfg, now, sessions, req, injectCount, received, reclaimed, gen,
                   send, mail, creators, probe, auth>>

NextParse == ParseText

SpecParse == InitParse /\ [][NextParse]_vars

\* the keyword is /cmd or Token in some case
IsKeyword(kw) ==
    \/ Len(kw) = Len(KwCmd) /\ KeywordAt(kw, KwCmd, 1)
    \/ Len(kw) = Len(KwToken) /\ KeywordAt(kw, KwToken, 1)

\* the text holds /cmd or Token, white space and eight token characters
ContainsKeywordToken(text) ==
    \E kw \in {KwCmd, KwToken} : \E i \in 1..Len(text) : \E j \in 1..Len(text) :
        /\ KeywordAt(text, kw, i)
        /\ j > i + Len(kw)
        /\ \A n \in (i + Len(kw))..(j - 1) : IsSpace(text[n])
        /\ j + TokenLen - 1 <= Len(text)
        /\ \A n \in j..(j + TokenLen - 1) : IsTokenChar(text[n])

\* the text is exactly <keyword> T c with one space each, T of 8 token characters
\* and c not empty
IsCommandLine(q) ==
    /\ q.pre = <<>> /\ IsKeyword(q.kw)
    /\ q.sep1 = <<" ">> /\ q.sep2 = <<" ">>
    /\ Len(q.token) = TokenLen
    /\ q.cmd # <<>>

\* C14 as stated: every such text parses to exactly {token: T, command: c}
C14_RoundTripAnyCommand ==
    (parse.done /\ IsCommandLine(parse))
    => parse.result = [token |-> parse.token, command |-> parse.cmd]

\* C14: for an 8-character token T and a command c that is one line, has no
\* white space at its ends and holds no command line of its own, "/cmd T c" and
\* "Token T c" parse to {token: T, command: c}, the keyword in any case
C14_RoundTrip ==
    (/\ parse.done /\ IsCommandLine(parse)
     /\ parse.cmd = trim(parse.cmd)
     /\ "\n" \notin Range(parse.cmd)
     /\ ~ContainsKeywordToken(parse.cmd))
    => parse.result = [token |-> parse.token, command |-> parse.cmd]

C14_Witness ==
    /\ parse.done /\ IsCommandLine(parse)
    /\ parse.kw = <<"T","O","K","E","N">>
    /\ parse.token = <<"a","B","c","D","1","2","3","4">>
    /\ parse.cmd = <<"l"," ","s">>
    /\ parse.result = [token |-> parse.token, command |-> parse.cmd]

\* C15: a text that holds neither /cmd nor Token followed by a token parses to
\* no command, a text that starts with the token itself included
C15_NoKeywordNoMatch ==
    (parse.done /\ ~ContainsKeywordToken(parse.text)) => parse.result = NULL

C15_Witness ==
    /\ parse.done
    /\ parse.text = <<"a","b","c","d","1","2","3","4"," ","l","s">>
    /\ parse.result = NULL

\* C16: after a keyword only a token of exactly 8 characters is accepted, and
\* the command returned is all of the message after the token, trimmed, also
\* when that spans several lines
C16_TokenLengthAndWholeCommand ==
    (/\ parse.done /\ IsKeyword(parse.kw) /\ parse.sep1 # <<>>
     /\ ~ContainsKeywordToken(parse.cmd))
    => /\ Len(parse.token) # TokenLen => parse.result = NULL
       /\ (Len(parse.token) = TokenLen /\ trim(parse.sep2 \o parse.cmd) # <<>>)
          => parse.result = [token |-> parse.token,
                             command |-> trim(parse.sep2 \o parse.cmd)]

-----------------------------------------------------------------------------
(* Sending a notification: the session is created, then the message is handed *)
(* to the transport                                                            *)

\* tmux sessions a notification can come from
TmuxSessions == {"claude-session", "work"}

\* a faulty FeishuChannel._sendImpl: the message is sent although the session
\* could not be saved
_sendImpl_sendsAnyway(saved) == [pc |-> "created", result |-> ""]

\* FeishuChannel._sendImpl after _formatMessage: an exception of _saveSession is
\* caught and false returned, otherwise _sendMessage is called
_sendImpl(saved) ==
    IF saved THEN [pc |-> "created", result |-> ""]
    ELSE [pc |-> "done", result |-> "false"]

\* SMTPChannel._sendImpl after _createSession: an exception leaves the method,
\* otherwise sendMail is called
smtp_sendImpl(created) ==
    IF created THEN [pc |-> "created", result |-> ""]
    ELSE [pc |-> "done", result |-> "throw"]

\* SMTPChannel._createSession at time t: the session file <sessionId>.json
\* (written when wroteFile) and the entry of session-map.json under the token
\* (written when wroteMap); times of the entry are in seconds
_createSession(m, sessionId, token, tmuxSession, t, wroteFile, wroteMap) ==
    [files |->
        IF wroteFile
        THEN [m.files EXCEPT ![sessionId] =
                [exists |-> TRUE, id |-> sessionId, token |-> token,
                 createdAt |-> t \div 1000,
                 expiresAt |-> (t + SessionTTL) \div 1000,
                 status |-> "waiting", commandCount |-> 0,
                 maxCommands |-> maxCommands]]
        ELSE m.files,
     map |->
        IF wroteFile /\ wroteMap
        THEN [m.map EXCEPT ![token] =
                [exists |-> TRUE, createdAt |-> t \div 1000,
                 expiresAt |-> (t + SessionTTL) \div 1000,
                 sessionId |-> sessionId, tmuxSession |-> tmuxSession]]
        ELSE m.map]

\* SMTPChannel._removeSession: the session file is deleted
_removeSession(m, sessionId) ==
    [m EXCEPT !.files[sessionId] = NoEntry]

\* FeishuChannel._sendImpl up to the call of _sendMessage; saved tells whether
\* fs.writeFileSync of _saveSession succeeded
FeishuCreate(token, saved) ==
    /\ send.pc = "idle"
    /\ sessions' = IF saved THEN _formatMessage(cfg, sessions, token, now) ELSE sessions
    /\ send' = [NoSend EXCEPT !.pc = _sendImpl(saved).pc,
                              !.result = _sendImpl(saved).result,
                              !.channel = "feishu", !.token = token,
                              !.persisted = saved]
    /\ UNCHANGED <<cfg, now, req, injectCount, received, reclaimed, gen, parse, mail, creators, probe, auth>>

\* SMTPChannel._sendImpl up to the call of sendMail, for a new session id
EmailCreate(sessionId, token, tmuxSession, wroteFile, wroteMap) ==
    /\ send.pc = "idle"
    /\ mail.files[sessionId] = NoEntry
    /\ mail' = _createSession(mail, sessionId, token, tmuxSession, now,
                              wroteFile, wroteMap)
    /\ send' = [NoSend EXCEPT !.pc = smtp_sendImpl(wroteFile /\ wroteMap).pc,
                              !.result = smtp_sendImpl(wroteFile /\ wroteMap).result,
                              !.channel = "email", !.token = token,
                              !.sessionId = sessionId,
                              !.persisted = wroteFile /\ wroteMap]
    /\ UNCHANGED <<cfg, now, sessions, req, injectCount, received, reclaimed, gen,
                   parse, creators, probe, auth>>

\* _sendMessage / sendMail is called and succeeds or fails; after a failure
\* the email channel removes the session, the Feishu channel returns false
Transport(delivered) ==
    /\ send.pc = "created"
    /\ send' = [send EXCEPT !.pc = "done", !.handed = TRUE,
                            !.result = IF delivered THEN "true" ELSE "false"]
    /\ mail' = IF send.channel = "email" /\ ~delivered
               THEN _removeSession(mail, send.sessionId)
               ELSE mail
    /\ UNCHANGED <<cfg, now, sessions, req, injectCount, received, reclaimed, gen,
                   parse, creators, probe, auth>>

\* _sendImpl has returned
Finish ==
    /\ send.pc = "done"
    /\ send' = NoSend
    /\ UNCHANGED <<cfg, now, sessions, req, injectCount, received, reclaimed, gen,
                   parse, mail, creators, probe, auth>>

InitSend ==
    /\ cfg \in {c \in BudgetConfigs : c.variant = "feishu.js"}
    /\ now = 0
    /\ sessions = [k \in Tokens |-> NoFile]
    /\ req = [w \in {1} |-> Idle]
    /\ injectCount = [k \in Tokens |-> 0]
    /\ received = [k \in Tokens |-> 0]
    /\ reclaimed = {}
    /\ gen = NoGen
    /\ parse = NoParse
    /\ send = NoSend
    /\ mail = NoMail
    /\ creators = NoCreators
    /\ probe = NoProbe
    /\ auth = NoAuth

NextSend ==
    \/ send.pc = "idle" /\ Tick
    \/ \E token \in Tokens, saved \in BOOLEAN : FeishuCreate(token, saved)
    \/ \E sessionId \in SessionIds, token \in Tokens, tmuxSession \in TmuxSessions,
          wroteFile, wroteMap \in BOOLEAN :
            EmailCreate(sessionId, token, tmuxSession, wroteFile, wroteMap)
    \/ \E delivered \in BOOLEAN : Transport(delivered)
    \/ Finish

SpecSend == InitSend /\ [][NextSend]_vars

\* the token has a live record in a store: the Feishu file by its own expiry
\* test, the session-map entry by its expiresAt in seconds
LiveFeishu(k) == existsSync(sessions, k) /\ ~(now > sessions[k].expiresAt)
LiveMapEntry(k) == mail.map[k] # NoEntry /\ ~(now \div 1000 > mail.map[k].expiresAt)

\* C11: a creation never writes a record under the token of a live record: a
\* live record stays as it is until it is removed
C11_NoLiveRecordOverwritten ==
    [][\A k \in Tokens :
        /\ LiveFeishu(k) => (sessions'[k] = sessions[k] \/ sessions'[k] = NoFile)
        /\ LiveMapEntry(k) => (mail'.map[k] = mail.map[k] \/ mail'.map[k] = NoEntry)]_vars

\* C12: the terminal target a token resolves to is the one stored at its
\* creation for as long as the record exists
C12_TargetNeverChanges ==
    [][\A k \in Tokens :
        /\ (mail.map[k] # NoEntry /\ mail'.map[k] # NoEntry)
           => mail'.map[k].tmuxSession = mail.map[k].tmuxSession
        /\ (existsSync(sessions, k) /\ existsSync(sessions', k))
           => SessionName(sessions'[k]) = SessionName(sessions[k])]_vars

\* C19: after a notification whose send failed, its token resolves to no
\* record: no Feishu session file, no email session file and no session-map entry
C19_FailedSendRolledBack ==
    (send.pc = "done" /\ send.handed /\ send.result = "false")
    => /\ ~existsSync(sessions, send.token)
       /\ mail.map[send.token] = NoEntry
       /\ \A i \in SessionIds :
            mail.files[i] # NoEntry => mail.files[i].token # send.token

\* C20: the message is handed to the transport only when the session record of
\* its token is in the store, written by this send; a send whose session could
\* not be written hands nothing to the transport
C20_PersistBeforeSend ==
    [][(~send.handed /\ send'.handed)
        => /\ send.persisted
           /\ send.channel = "feishu"
              => existsSync(sessions, send.token)
           /\ send.channel = "email"
              => /\ mail.files[send.sessionId] # NoEntry
                 /\ mail.files[send.sessionId].token = send.token
                 /\ mail.map[send.token] # NoEntry
                 /\ mail.map[send.token].sessionId = send.sessionId]_vars

C20_Witness ==
    /\ send.pc = "done"
    /\ ~send.persisted /\ ~send.handed
    /\ send.result \in {"false", "throw"}
    /\ ~existsSync(sessions, send.token)

-----------------------------------------------------------------------------
(* Properties of the webhook handler, continued *)

\* C13: /cmd <token> ls from the session's own user on a live session, the
\* injector succeeding: one injection of exactly "ls" into the session's tmux
\* session, the success acknowledgment, and the record counts the command
C13_AuthorizedCommandInjectedOnce ==
    \A w \in DOMAIN req :
        (/\ req[w].pc = "done"
         /\ req[w].event.text = Slash(T1, Ls)
         /\ req[w].result \notin {"fail", "throw"})
        => /\ req[w].call.invoked
           /\ req[w].call.command = Ls
           /\ req[w].call.sessionName = SessionName(sessions[T1])
           /\ req[w].result = "ok"
           /\ req[w].reply = MsgSuccess
           /\ "commandCount" \in DOMAIN sessions[T1]
           /\ sessions[T1].commandCount = injectCount[T1]

\* C17: an ownership verification, POST with type url_verification or GET with
\* a challenge, is answered 200 with the challenge it carried whatever its
\* signature and sender, is not handled as a message, looks up and injects
\* nothing and leaves the session files as they are
C17_VerificationEchoesChallenge ==
    [][\A w \in DOMAIN req :
        (/\ Handles(w)
         /\ req'[w].event.type \in {"url_verification", "get_verification"}
         /\ req'[w].event.challenge # "")
        => /\ req'[w].http = "200"
           /\ req'[w].challenge = req'[w].event.challenge
           /\ ~req'[w].passed
           /\ ~req'[w].call.invoked
           /\ ~req'[w].lookup.done /\ ~req'[w].scan.done
           /\ req'[w].reply = ""
           /\ sessions' = sessions
           /\ injectCount' = injectCount]_vars

C17_Witness ==
    \E w \in DOMAIN req :
        /\ req[w].event.type = "url_verification"
        /\ cfg.verificationToken /\ cfg.whitelist # {}
        /\ req[w].event.signature = "forged"
        /\ req[w].http = "200" /\ req[w].challenge = "c2"
        /\ existsSync(sessions, T1)

\* the event carries a command: a text or card message, or a card action
CarriesCommand(event) ==
    /\ IsCommandBearing(event)
    /\ \/ event.msgType \in {"text", "interactive"}
       \/ event.eventType = "card.action.trigger" /\ event.action.present

\* C18: every command-carrying event that got past the signature check and
\* did not end in a successful injection has a message sent back to its sender
C18_RejectionsAnswered ==
    \A w \in DOMAIN req :
        (/\ req[w].pc = "done"
         /\ req[w].passed
         /\ CarriesCommand(req[w].event)
         /\ req[w].result # "ok")
        => req[w].reply # ""

\* C21 as stated: with a verification token configured a message event is
\* handled only when its signature is the canonical one, and no signature check
\* of the program accepts an alternative construction or encoding
C21_OnlyCanonicalSignature ==
    \A w \in DOMAIN req :
        (/\ req[w].pc # "idle"
         /\ cfg.verificationToken
         /\ req[w].event.type = "event"
         /\ req[w].event.eventType = "im.message.receive_v1")
        => /\ req[w].passed => req[w].event.signature = "canonical"
           /\ feishu_verifySignature(cfg, req[w].event.signature)
              => req[w].event.signature = "canonical"

\* C22 as stated: a text that parses to no command, from a sender with a live
\* session of their own, is injected into that session's tmux session and a
\* successful injection is acknowledged
C22_FallbackInjects ==
    \A w \in DOMAIN req :
        (/\ req[w].pc = "done"
         /\ req[w].scan.done
         /\ req[w].scan.found # <<>>)
        => /\ req[w].call.invoked
           /\ req[w].call.command = trim(req[w].event.text)
           /\ req[w].call.token = req[w].scan.found
           /\ req[w].result = "ok" => req[w].reply = MsgSuccess

\* the messages that report a failure
FailureReplies ==
    {MsgInvalidToken, MsgFailed, MsgError, MsgNoSession, MsgEnterCommand,
     MsgFailedCheckToken}

\* C23: the injector is called at most once for an event: after it returned
\* false or threw, the failure is reported and it is not called again
C23_InjectorCalledAtMostOnce ==
    \A w \in DOMAIN req :
        /\ req[w].calls <= 1
        /\ req[w].call.invoked <=> req[w].calls = 1
        /\ req[w].result \in {"fail", "throw"}
           => /\ req[w].calls = 1
              /\ req[w].pc \in {"replying", "done"}
              /\ req[w].reply \in FailureReplies

C23_Witness ==
    \E w \in DOMAIN req :
        /\ req[w].pc = "done"
        /\ req[w].result = "fail"
        /\ req[w].calls = 1
        /\ injectCount[req[w].call.token] = 1
        /\ req[w].reply = MsgFailed

\* the request got as far as handling a command: a session was looked up or
\* scanned for, or the injector called
CommandHandled(r) == r.lookup.done \/ r.scan.done \/ r.call.invoked

C26_NoErrorEscapes ==
    \A w \in DOMAIN req :
        /\ ~req[w].escaped
        /\ req[w].responses <= 1
        /\ req[w].pc \in {"injecting", "replying"}
           => req[w].responses = 0 /\ req[w].http = Pending
        /\ req[w].pc = "done"
           => req[w].responses = 1 /\ req[w].http # Pending

C26_Witness ==
    \E w \in DOMAIN req :
        /\ req[w].pc = "done"
        /\ req[w].event.shape = "bad_content"
        /\ req[w].caught /\ ~req[w].escaped
        /\ req[w].responses = 1
        /\ req[w].http = "200"

\* why a finished request was refused: the injector returned false or threw, the
\* token has no live session, or the text parses to no command
Cause(r) ==
    IF r.pc # "done" THEN "none"
    ELSE IF r.call.invoked /\ r.result \in {"fail", "throw"} THEN "inject"
    ELSE IF r.lookup.done /\ ~r.lookup.found THEN "token"
    ELSE IF r.event.msgType = "text" /\ r.reply # ""
            /\ _parseCommand(trim(r.event.text)) = NULL THEN "parse"
    ELSE "none"

\* C25 as stated: an injector failure, an invalid or expired token and an
\* unparseable message are reported with three different messages: two
\* requests refused for different causes never get the same reply
C25_CausesDistinguishable ==
    \A w1, w2 \in DOMAIN req :
        (/\ Cause(req[w1]) # "none"
         /\ Cause(req[w2]) # "none"
         /\ Cause(req[w1]) # Cause(req[w2]))
        => req[w1].reply # req[w2].reply

\* C27 as stated: every record a session creation has written, Feishu file
\* and email session file alike, has status active, commandCount 0 and an
\* expiresAt 24 hours after its creation time
C27_CreatedRecordFields ==
    /\ \A k \in Tokens :
        existsSync(sessions, k)
        => /\ "status" \in DOMAIN sessions[k]
           /\ sessions[k].status = "active"
           /\ "commandCount" \in DOMAIN sessions[k]
           /\ sessions[k].commandCount = 0
           /\ sessions[k].expiresAt = sessions[k].timestamp + SessionTTL
    /\ \A i \in SessionIds :
        mail.files[i] # NoEntry
        => /\ mail.files[i].status = "active"
           /\ mail.files[i].commandCount = 0
           /\ mail.files[i].expiresAt = mail.files[i].createdAt + SessionTTL \div 1000

\* the request was refused at authentication: answered 401, or a message
\* whose sender _validateSender turned down
RejectedAtAuth(config, r) ==
    \/ r.http = "401"
    \/ /\ r.passed
       /\ r.event.eventType = "im.message.receive_v1"
       /\ r.event.msgType \in {"text", "interactive"}
       /\ r.event.shape = "ok"
       /\ ~_validateSender(config, r.event.sender)

\* C28: handling an event that is refused for a missing or invalid signature
\* or for a sender outside the whitelist writes and deletes no session file
C28_RejectedLeavesStore ==
    [][\A w \in DOMAIN req :
        (Handles(w) /\ RejectedAtAuth(cfg, req'[w]))
        => /\ sessions' = sessions
           /\ injectCount' = injectCount
           /\ ~req'[w].lookup.done /\ ~req'[w].scan.done]_vars

C28_Witness ==
    \E w \in DOMAIN req :
        /\ req[w].pc = "done"
        /\ cfg.whitelist = {"U1"}
        /\ req[w].passed
        /\ req[w].event.sender = User("U2")
        /\ req[w].event.text = Slash(T1, Ls)
        /\ existsSync(sessions, T1)
        /\ now > sessions[T1].expiresAt

\* C29: with a verification token configured, a message event without a
\* signature header is answered 401, is not passed to _handleMessage and
\* looks up and injects nothing
C29_MissingSignatureRejected ==
    \A w \in DOMAIN req :
        (/\ req[w].pc # "idle"
         /\ cfg.verificationToken
         /\ req[w].event.type = "event"
         /\ req[w].event.eventType = "im.message.receive_v1"
         /\ req[w].event.signature = "absent")
        => /\ req[w].http = "401"
           /\ req[w].pc = "done"
           /\ ~req[w].passed
           /\ ~req[w].call.invoked
           /\ ~req[w].lookup.done /\ ~req[w].scan.done
           /\ req[w].reply = ""

C29_Witness ==
    \E w \in DOMAIN req :
        /\ cfg.verificationToken
        /\ cfg.variant = "feishu.js"
        /\ req[w].event.eventType = "im.message.receive_v1"
        /\ req[w].event.signature = "absent"
        /\ req[w].event.sender = User("U1")
        /\ req[w].event.text = Slash(T1, Ls)
        /\ existsSync(sessions, T1) /\ ~(now > sessions[T1].expiresAt)
        /\ req[w].http = "401"

\* C30 as stated: with a whitelist, a sender is authorized if and only if
\* their user_id or their open_id is in it, and the text of an authorized
\* sender gets to command handling
C30_EitherIdAuthorizes ==
    \A w \in DOMAIN req :
        (/\ req[w].pc = "done"
         /\ cfg.whitelist # {}
         /\ req[w].passed
         /\ req[w].event.msgType = "text"
         /\ req[w].event.shape = "ok")
        => /\ _validateSender(cfg, req[w].event.sender)
              <=> \/ req[w].event.sender.userId \in cfg.whitelist
                  \/ req[w].event.sender.openId \in cfg.whitelist
           /\ req[w].event.sender.openId \in cfg.whitelist
              => CommandHandled(req[w])

-----------------------------------------------------------------------------
(* Email session creation by several processes: each notification is sent by *)
(* a process of its own, and _createSession reads session-map.json, adds its  *)
(* entry and writes the whole map back                                        *)

\* _createSession up to the read of session-map.json (smtp.js 162-174): the
\* session file is written and the map on disk is read into sessionMap
ReadMap(p, sessionId, token, tmuxSession) ==
    /\ creators[p].pc = "idle"
    /\ mail.files[sessionId] = NoEntry
    /\ \A q \in DOMAIN creators : creators[q].sessionId # sessionId
    /\ mail' = [mail EXCEPT !.files =
                 _createSession(mail, sessionId, token, tmuxSession, now,
                                TRUE, FALSE).files]
    /\ creators' = [creators EXCEPT ![p] =
                     [pc |-> "read", token |-> token, sessionId |-> sessionId,
                      tmuxSession |-> tmuxSession, sessionMap |-> mail.map]]
    /\ UNCHANGED <<cfg, now, sessions, req, injectCount, received, reclaimed, gen,
                   parse, send, probe, auth>>

\* the rest of _createSession (smtp.js 179-195): the entry is put into the map
\* that was read and the map is written to session-map.json
WriteMap(p) ==
    /\ creators[p].pc = "read"
    /\ mail' = [mail EXCEPT !.map =
                 _createSession([files |-> mail.files, map |-> creators[p].sessionMap],
                                creators[p].sessionId, creators[p].token,
                                creators[p].tmuxSession, now, TRUE, TRUE).map]
    /\ creators' = [creators EXCEPT ![p].pc = "done"]
    /\ UNCHANGED <<cfg, now, sessions, req, injectCount, received, reclaimed, gen,
                   parse, send, probe, auth>>

\* the process has sent its notification and exits
Exit(p) ==
    /\ creators[p].pc = "done"
    /\ creators' = [creators EXCEPT ![p] = NoCreator]
    /\ UNCHANGED <<cfg, now, sessions, req, injectCount, received, reclaimed, gen,
                   parse, send, mail, probe, auth>>

InitMap ==
    /\ cfg \in {c \in BudgetConfigs : c.variant = "feishu.js"}
    /\ now = 0
    /\ sessions = [k \in Tokens |-> NoFile]
    /\ req = [w \in {1} |-> Idle]
    /\ injectCount = [k \in Tokens |-> 0]
    /\ received = [k \in Tokens |-> 0]
    /\ reclaimed = {}
    /\ gen = NoGen
    /\ parse = NoParse
    /\ send = NoSend
    /\ mail = NoMail
    /\ creators = NoCreators
    /\ probe = NoProbe
    /\ auth = NoAuth

NextMap ==
    \/ \E p \in DOMAIN creators, sessionId \in SessionIds, token \in Tokens,
          tmuxSession \in TmuxSessions : ReadMap(p, sessionId, token, tmuxSession)
    \/ \E p \in DOMAIN creators : WriteMap(p)
    \/ \E p \in DOMAIN creators : Exit(p)

SpecMap == InitMap /\ [][NextMap]_vars

\* C31 as stated: after two creations with different tokens, however the
\* processes interleave, session-map.json holds the entries of both tokens,
\* and a creation removes no entry that was in the map before it
C31_NoMapEntryLost ==
    /\ \A p, q \in DOMAIN creators :
        (/\ creators[p].pc = "done" /\ creators[q].pc = "done"
         /\ creators[p].token # creators[q].token)
        => /\ mail.map[creators[p].token] # NoEntry
           /\ mail.map[creators[q].token] # NoEntry
    /\ \A p \in DOMAIN creators :
        creators[p].pc = "done"
        => \A k \in Tokens :
            creators[p].sessionMap[k] # NoEntry => mail.map[k] # NoEntry

-----------------------------------------------------------------------------
(* Lookups and scans on given session files: readable records of both users, *)
(* created at two times, unreadable files and no file                          *)

\* times the session files were written at, and times of the lookup
ProbeCreated == {0, SessionTTL}
ProbeTimes == {SessionTTL, SessionTTL + Hour}

\* what the file of a token may hold
ProbeFiles(k) ==
    {NoFile, CorruptFile}
    \cup {_saveSession([j \in Tokens |-> NoFile], k,
                       [receiveId |-> u, receiveType |-> "user",
                        conversationContext |-> NULL], c)[k] :
            u \in {"U1", "U2"}, c \in ProbeCreated}

ProbeStores == {st \in [Tokens -> UNION {ProbeFiles(k) : k \in Tokens}] :
                    \A k \in Tokens : st[k] \in ProbeFiles(k)}

ProbeInputs ==
    {[NoProbe EXCEPT !.kind = "load", !.store = st, !.token = k, !.t = t] :
        st \in ProbeStores, k \in Tokens, t \in ProbeTimes}
    \cup UNION {{[NoProbe EXCEPT !.kind = "scan", !.store = st, !.senderId = u,
                                 !.order = o, !.t = t] :
                    o \in Listings(st), u \in {"U1", "U2"}, t \in ProbeTimes} :
                st \in ProbeStores}

InitProbe ==
    /\ cfg \in {c \in BudgetConfigs : c.variant = "feishu.js"}
    /\ now = 0
    /\ sessions = [k \in Tokens |-> NoFile]
    /\ req = [w \in {1} |-> Idle]
    /\ injectCount = [k \in Tokens |-> 0]
    /\ received = [k \in Tokens |-> 0]
    /\ reclaimed = {}
    /\ gen = NoGen
    /\ parse = NoParse
    /\ send = NoSend
    /\ mail = NoMail
    /\ creators = NoCreators
    /\ probe \in ProbeInputs
    /\ auth = NoAuth

\* _handleCommand is called for /cmd <token> ls on the files
LoadFile ==
    /\ probe.kind = "load" /\ ~probe.done
    /\ \E o \in {_handleCommand([token |-> probe.token, command |-> Ls],
                                probe.store, probe.t)} :
        probe' = [probe EXCEPT
                    !.done = TRUE,
                    !.session = _loadSession(probe.store, probe.token, probe.t).session,
                    !.after = o.store,
                    !.invoked = o.call.invoked,
                    !.reply = o.reply]
    /\ UNCHANGED <<cfg, now, sessions, req, injectCount, received, reclaimed, gen,
                   parse, send, mail, creators, auth>>

\* _findActiveSession is called for the sender on the files
ScanFiles ==
    /\ probe.kind = "scan" /\ ~probe.done
    /\ \E f \in {_findActiveSession(probe.store, probe.senderId, probe.t,
                                    probe.order)} :
        probe' = [probe EXCEPT !.done = TRUE, !.session = f.session,
                               !.after = f.store]
    /\ UNCHANGED <<cfg, now, sessions, req, injectCount, received, reclaimed, gen,
                   parse, send, mail, creators, auth>>

NextProbe ==
    \/ LoadFile
    \/ ScanFiles

SpecProbe == InitProbe /\ [][NextProbe]_vars

\* the file of k holds a readable record that is not expired at time t
LiveRecord(store, k, t) ==
    /\ existsSync(store, k)
    /\ store[k] # CorruptFile
    /\ ~(t > store[k].expiresAt)

\* C32 as stated: the scan deletes only files expired at the time of the scan
\* and changes no other file, and when a live record of the sender is among
\* the files it returns a live record of the sender, not null
C32_ScanFrame ==
    (probe.done /\ probe.kind = "scan") =>
        /\ \A k \in Tokens :
            \/ probe.after[k] = probe.store[k]
            \/ /\ probe.after[k] = NoFile
               /\ probe.store[k] # CorruptFile
               /\ probe.t > probe.store[k].expiresAt
        /\ (\E k \in Tokens : /\ LiveRecord(probe.store, k, probe.t)
                              /\ probe.store[k].receiveId = probe.senderId)
           => /\ probe.session # NULL
              /\ probe.session.receiveId = probe.senderId
              /\ ~(probe.t > probe.session.expiresAt)

\* C35: a session file that cannot be read or parsed is a session not found:
\* _loadSession returns null, _handleCommand injects nothing and answers that
\* the token is invalid, and the file stays as it is
C35_UnreadableIsNotFound ==
    (probe.done /\ probe.kind = "load" /\ probe.store[probe.token] = CorruptFile)
    => /\ probe.session = NULL
       /\ ~probe.invoked
       /\ probe.reply = MsgInvalidToken
       /\ probe.after = probe.store

C35_Witness ==
    /\ probe.done /\ probe.kind = "load"
    /\ probe.store[probe.token] = CorruptFile
    /\ probe.after[probe.token] = CorruptFile
    /\ probe.session = NULL /\ ~probe.invoked

\* the card action names a token with /cmd and has no command: none on the
\* button and none, or only white space, in the form
EmptyCardCommand(event) ==
    /\ event.type = "event"
    /\ event.eventType = "card.action.trigger"
    /\ event.action.present
    /\ event.action.cmd = "/cmd"
    /\ event.action.token # <<>>
    /\ event.action.command = <<>>
    /\ trim(event.action.input) = <<>>

\* C33: a card action of /cmd with a token and no command text calls no
\* injector, looks up no session and is answered with one message, the
\* request to enter a valid command
C33_EmptyCardCommandRefused ==
    \A w \in DOMAIN req :
        (/\ req[w].pc # "idle"
         /\ cfg.variant = "feishu.js"
         /\ EmptyCardCommand(req[w].event))
        => /\ ~req[w].call.invoked /\ req[w].calls = 0
           /\ ~req[w].lookup.done /\ ~req[w].scan.done
           /\ req[w].reply = MsgEnterCommand
           /\ req[w].pc \in {"replying", "done"}
           /\ req[w].messages = IF req[w].pc = "done" THEN 1 ELSE 0

C33_Witness ==
    \E w \in DOMAIN req :
        /\ req[w].pc = "done"
        /\ cfg.variant = "feishu.js"
        /\ EmptyCardCommand(req[w].event)
        /\ req[w].event.action.input = Blank
        /\ existsSync(sessions, T1) /\ ~(now > sessions[T1].expiresAt)
        /\ req[w].reply = MsgEnterCommand
        /\ req[w].messages = 1

\* an event _handleWebhook and _handleMessage have no handler for: an event
\* type other than message and card action, or a message of a type other than
\* text and interactive
Unsupported(event) ==
    /\ event.type = "event"
    /\ event.shape = "ok"
    /\ \/ event.eventType \notin {"im.message.receive_v1", "card.action.trigger"}
       \/ /\ event.eventType = "im.message.receive_v1"
          /\ event.msgType \notin {"text", "interactive"}

\* C34 as stated: every such event is ignored and answered {ok: true}
C34_UnsupportedAnswered200 ==
    \A w \in DOMAIN req :
        (req[w].pc # "idle" /\ Unsupported(req[w].event))
        => /\ req[w].http = "200"
           /\ ~req[w].call.invoked
           /\ req[w].reply = ""

\* C34: an event of a type other than message and card action, and a message
\* of a type other than text and interactive that was not refused with 401 for
\* its signature, is ignored: nothing is injected, no session file is read,
\* deleted or changed, no message is sent and the answer is 200 {ok: true}
C34_UnsupportedIgnored ==
    [][\A w \in DOMAIN req :
        (Handles(w) /\ Unsupported(req'[w].event) /\ req'[w].http # "401")
        => /\ req'[w].pc = "done"
           /\ req'[w].http = "200"
           /\ req'[w].responses = 1
           /\ ~req'[w].call.invoked
           /\ ~req'[w].lookup.done /\ ~req'[w].scan.done
           /\ req'[w].reply = "" /\ req'[w].messages = 0
           /\ sessions' = sessions
           /\ injectCount' = injectCount]_vars

C34_Witness ==
    \E w \in DOMAIN req :
        /\ req[w].pc = "done"
        /\ req[w].event.eventType = "im.message.receive_v1"
        /\ req[w].event.msgType = "image"
        /\ req[w].passed
        /\ req[w].http = "200"
        /\ existsSync(sessions, T1) /\ now > sessions[T1].expiresAt

-----------------------------------------------------------------------------
(* The tenant access token of FeishuChannel *)

\* tenant access tokens the API issues in a behaviour
MaxIssued == 3

\* response.data.expire, in seconds: one hour and two hours
Expires == {3600, 7200}

\* times of the calls
AuthTimes == {0, Hour, 2 * Hour, 3 * Hour}

\* the tenant_access_token of the n-th successful request
Issued(n) == [tenant_access_token |-> n]

\* a faulty test of the cached token: it is still returned at its tokenExpiry
CacheValid_atExpiry(a, t) ==
    a.accessToken # NULL /\ a.tokenExpiry # 0 /\ t <= a.tokenExpiry

\* this.accessToken && this.tokenExpiry && Date.now() < this.tokenExpiry
CacheValid(a, t) ==
    a.accessToken # NULL /\ a.tokenExpiry # 0 /\ t < a.tokenExpiry

\* _getAccessToken is called: the cached token is returned, or the request
\* for a new one is sent
CallGetAccessToken ==
    /\ auth.pc = "idle"
    /\ auth' = [auth EXCEPT
                 !.pc = IF CacheValid(auth, now) THEN "returned" ELSE "requesting",
                 !.at = now,
                 !.requested = ~CacheValid(auth, now),
                 !.returned = IF CacheValid(auth, now) THEN auth.accessToken ELSE NULL,
                 !.before = [accessToken |-> auth.accessToken,
                             tokenExpiry |-> auth.tokenExpiry]]
    /\ UNCHANGED <<cfg, now, sessions, req, injectCount, received, reclaimed, gen,
                   parse, send, mail, creators, probe>>

\* the request is answered with code 0, a token and its expire
TokenGranted(expire) ==
    /\ auth.pc = "requesting"
    /\ auth.issued < MaxIssued
    /\ auth' = [auth EXCEPT
                 !.accessToken = Issued(auth.issued + 1),
                 !.tokenExpiry = now + (expire - 3600) * 1000,
                 !.issued = @ + 1,
                 !.pc = "returned",
                 !.returned = Issued(auth.issued + 1)]
    /\ UNCHANGED <<cfg, now, sessions, req, injectCount, received, reclaimed, gen,
                   parse, send, mail, creators, probe>>

\* the request fails, or is answered with another code: the error is thrown
TokenRefused ==
    /\ auth.pc = "requesting"
    /\ auth' = [auth EXCEPT !.pc = "threw"]
    /\ UNCHANGED <<cfg, now, sessions, req, injectCount, received, reclaimed, gen,
                   parse, send, mail, creators, probe>>

\* the caller has its answer
AuthReturn ==
    /\ auth.pc \in {"returned", "threw"}
    /\ auth' = [auth EXCEPT !.pc = "idle"]
    /\ UNCHANGED <<cfg, now, sessions, req, injectCount, received, reclaimed, gen,
                   parse, send, mail, creators, probe>>

\* time passes, also while a request is under way
AuthTick ==
    /\ auth.pc \in {"idle", "requesting"}
    /\ \E t \in AuthTimes : t > now /\ now' = t
    /\ UNCHANGED <<cfg, sessions, req, injectCount, received, reclaimed, gen,
                   parse, send, mail, creators, probe, auth>>

InitAuth ==
    /\ cfg \in {c \in BudgetConfigs : c.variant = "feishu.js"}
    /\ now = 0
    /\ sessions = [k \in Tokens |-> NoFile]
    /\ req = [w \in {1} |-> Idle]
    /\ injectCount = [k \in Tokens |-> 0]
    /\ received = [k \in Tokens |-> 0]
    /\ reclaimed = {}
    /\ gen = NoGen
    /\ parse = NoParse
    /\ send = NoSend
    /\ mail = NoMail
    /\ creators = NoCreators
    /\ probe = NoProbe
    /\ auth = NoAuth

NextAuth ==
    \/ CallGetAccessToken
    \/ \E expire \in Expires : TokenGranted(expire)
    \/ TokenRefused
    \/ AuthReturn
    \/ AuthTick

SpecAuth == InitAuth /\ [][NextAuth]_vars

\* C36: a token is returned from the cache only at a time before the
\* tokenExpiry recorded with it; at or after it a new one is requested and the
\* new one returned; a failed request leaves accessToken and tokenExpiry as
\* they were
C36_CachedTokenOnlyBeforeExpiry ==
    /\ (auth.pc = "returned" /\ ~auth.requested)
       => /\ auth.before.accessToken # NULL
          /\ auth.at < auth.before.tokenExpiry
          /\ auth.returned = auth.before.accessToken
          /\ auth.accessToken = auth.before.accessToken
    /\ (auth.pc \in {"requesting", "returned", "threw"} /\ auth.requested)
       => \/ auth.before.accessToken = NULL
          \/ auth.at >= auth.before.tokenExpiry
    /\ (auth.pc = "returned" /\ auth.requested)
       => /\ auth.returned = auth.accessToken
          /\ auth.returned # auth.before.accessToken
    /\ auth.pc \in {"requesting", "threw"}
       => /\ auth.accessToken = auth.before.accessToken
          /\ auth.tokenExpiry = auth.before.tokenExpiry

C36_Witness ==
    /\ auth.pc = "threw"
    /\ auth.before.accessToken # NULL
    /\ auth.at = auth.before.tokenExpiry
    /\ auth.accessToken = auth.before.accessToken

\* C37 as stated: the acknowledgment of a command goes to the party that sent
\* it: for a p2p message as a user message to the sender, for a group message
\* as a group message
C37_ReplyToSender ==
    \A w \in DOMAIN req :
        (/\ req[w].pc = "done"
         /\ req[w].messages = 1
         /\ req[w].event.shape = "ok"
         /\ req[w].event.eventType = "im.message.receive_v1")
        => /\ req[w].event.chatType = "p2p"
              => /\ req[w].sentTo.receiveType = "user"
                 /\ req[w].sentTo.receiveId = SenderId(req[w].event.sender)
           /\ req[w].event.chatType = "group"
              => req[w].sentTo.receiveType = "group"

====
